---- MODULE Spec2Model ----
(***************************************************************************)
(* Result-notification backend: the registration handshake over a          *)
(* WebSocket (websocket_preconnect), the completion webhook                *)
(* (handle_webhook), the polling endpoint (get_result_status) and the      *)
(* persistence client they use (DBClient).  One asyncio event loop runs    *)
(* every task: a step of the model is the code between two awaits.         *)
(***************************************************************************)
EXTENDS Integers, Sequences, FiniteSets, TLC

\* ------------------------------------------------------------------ bounds
MaxConns == 2
MaxCallbacks == 1
MaxPaths == 2

Conns == 1..MaxConns
Jobs == {"J1", "J2", "J3"}
Keys == {"a", "b"}

\* Python's None, for a string-valued field.
None == "None"

\* ------------------------------------------------------------- identities
\* An identity value is a Python object: the token's subject is a str, the
\* user_id column may come back as an int.  <<type, n>> is the value whose
\* str() is the decimal numeral of n.
NoId == <<"none", 0>>
Idents == {<<"str", 1>>, <<"str", 2>>, <<"str", 3>>, <<"int", 1>>}

Str(v) == v[2]

\* get_user_id_from_token: the subject of a token that verifies; raises
\* otherwise.  "t1", "t2" and "t3" verify, any other token does not; the
\* subject of "t3" owns no job.
TokenValid(token) == token \in {"t1", "t2", "t3"}

TokenSub(token) ==
    IF token = "t1" THEN <<"str", 1>>
    ELSE IF token = "t2" THEN <<"str", 2>>
    ELSE <<"str", 3>>

\* The credentials of an upgrade request: <<subprotocol, ?token=, cookie>>.
Credentials ==
    {<<"", "", "">>, <<"t1", "", "">>, <<"", "t2", "">>, <<"", "", "t1">>,
     <<"bad", "t1", "">>, <<"", "bad", "t1">>, <<"t2", "t1", "t1">>,
     <<"", "t3", "">>}

\* Lines 50-85: the credential is the first subprotocol, else the query
\* parameter, else the id_token cookie, else the access_token cookie.  ""
\* is an absent (or empty) value: each test is Python truthiness.
ExtractToken(proto, query, cookie) ==
    IF proto # "" THEN proto
    ELSE IF query # "" THEN query
    ELSE IF cookie # "" THEN cookie
    ELSE ""

\* Lines 109-113: no token, or a token the verifier rejects, is no identity.
ResolveUser(token) ==
    IF token # "" /\ TokenValid(token) THEN TokenSub(token) ELSE NoId

\* ------------------------------------------------------------ persistence
\* One row of the uploads table; exists = FALSE is no row.  s3_result_paths
\* is a text column: NullText, or the JSON text of a list.
NullText == [null |-> TRUE, items |-> <<>>]

JsonDumps(list) == [null |-> FALSE, items |-> list]

JsonLoads(text) == text.items

NoRow == [exists |-> FALSE, user_id |-> NoId, status |-> None,
          s3_result_path |-> None, s3_result_paths |-> NullText]

Row(owner) == [exists |-> TRUE, user_id |-> owner, status |-> "PENDING",
               s3_result_path |-> None, s3_result_paths |-> NullText]

\* insert_upload_intent takes an s3_result_path too: a PENDING row may hold
\* one.
RowWithPath(owner, path) == [Row(owner) EXCEPT !.s3_result_path = path]

\* get_job_owner: the user_id of the row, None when there is no row.
GetJobOwner(table, job_id) ==
    IF table[job_id].exists THEN table[job_id].user_id ELSE NoId

\* --------------------------------------------------------------- registry
\* The connection registry maps a job_id to (connection, owner identity);
\* a Registration is one entry of the mapping.
Registration(job_id, conn, user) == [job |-> job_id, conn |-> conn, owner |-> user]

RegsFor(reg, job_id) == {r \in reg : r.job = job_id}

\* connect(job_id, connection, owner): replaces any registration of job_id.
RegistryConnect(reg, job_id, conn, user) ==
    (reg \ RegsFor(reg, job_id)) \cup {Registration(job_id, conn, user)}

\* disconnect(job_id): the router hands the registry the job_id alone, so
\* the entry under job_id is removed whoever registered it.
RegistryDisconnect(reg, job_id) == reg \ RegsFor(reg, job_id)

\* --------------------------------------------------------------- messages
\* The first text frame of a client.  "garbage" is not JSON, "array" is JSON
\* that is not an object, "object" is a JSON object whose "action" and
\* "job_id" members are given (None: the member is absent).
Actions == {"register", "other", None}
JobFields == Jobs \cup {"", None}

Messages ==
    {[kind |-> "garbage", action |-> None, job_id |-> None],
     [kind |-> "array", action |-> None, job_id |-> None]}
    \cup [kind : {"object"}, action : Actions, job_id : JobFields]

\* json.loads raises on text that is not JSON.
JsonDecodes(msg) == msg.kind # "garbage"

\* payload.get exists on a dict only.
IsDict(msg) == msg.kind = "object"

\* Python truthiness of payload.get("job_id").
Truthy(s) == s # None /\ s # ""

Payload(tag, job_id, urls) == [tag |-> tag, job |-> job_id, urls |-> urls]

ErrorPayload(tag) == Payload(tag, None, <<>>)

\* ------------------------------------------------------------------ lists
\* The lists of storage keys a callback's s3_result_paths may carry.
Lists == UNION {[1..n -> Keys] : n \in 0..MaxPaths}

\* Python's `key in list`.
InList(k, list) == \E i \in 1..Len(list) : list[i] = k

\* Python's `x or y` on string-valued fields.
Or(x, y) == IF Truthy(x) THEN x ELSE y

\* S3Client.create_presigned_get_url(key): the URL signed for key.
NoUrl == <<"null", None>>

PresignedUrl(key) == <<"presigned", key>>

\* ------------------------------------------------------- DBClient updates
\* UPDATE ... WHERE id = job_id: changes the row when there is one, and is
\* no error when there is none.
SetFull(table, job_id, status, path, paths) ==
    IF table[job_id].exists
    THEN [table EXCEPT ![job_id].status = status,
                       ![job_id].s3_result_path = path,
                       ![job_id].s3_result_paths = paths]
    ELSE table

SetStatusPaths(table, job_id, status, paths) ==
    IF table[job_id].exists
    THEN [table EXCEPT ![job_id].status = status,
                       ![job_id].s3_result_paths = paths]
    ELSE table

SetPrimary(table, job_id, status, path) ==
    IF table[job_id].exists
    THEN [table EXCEPT ![job_id].status = status,
                       ![job_id].s3_result_path = path]
    ELSE table

SetStatus(table, job_id, status) ==
    IF table[job_id].exists
    THEN [table EXCEPT ![job_id].status = status]
    ELSE table

Wrote(table) == [table |-> table, raised |-> FALSE]

Raised(table) == [table |-> table, raised |-> TRUE]

\* DBClient.update_upload_status_with_paths; ok1 and ok2 say whether its first
\* and its fallback statement execute without raising.
UpdateUploadStatusWithPaths(table, job_id, status, path, paths, ok1, ok2) ==
    IF ok1
    THEN Wrote(IF paths # NullText /\ path # None
               THEN SetFull(table, job_id, status, path, paths)
               ELSE IF paths # NullText
               THEN SetStatusPaths(table, job_id, status, paths)
               ELSE IF path # None
               THEN SetPrimary(table, job_id, status, path)
               ELSE SetStatus(table, job_id, status))
    ELSE IF ok2
    THEN Wrote(SetPrimary(table, job_id, status, path))
    ELSE Raised(table)

\* DBClient.update_upload_status.
UpdateUploadStatus(table, job_id, status, path, ok1, ok2) ==
    IF ok1
    THEN Wrote(IF path # None
               THEN SetPrimary(table, job_id, status, path)
               ELSE SetStatus(table, job_id, status))
    ELSE IF ok2
    THEN Wrote(SetStatus(table, job_id, status))
    ELSE Raised(table)

\* DBClient.get_upload_record; ok1 and ok2 as above.  The fallback SELECT
\* leaves s3_result_paths out.
GetUploadRecord(table, job_id, ok1, ok2) ==
    IF ok1
    THEN [raised |-> FALSE, rec |-> table[job_id]]
    ELSE IF ok2
    THEN [raised |-> FALSE,
          rec |-> IF table[job_id].exists
                  THEN [table[job_id] EXCEPT !.s3_result_paths = NullText]
                  ELSE table[job_id]]
    ELSE [raised |-> TRUE, rec |-> NoRow]

\* ---------------------------------------------------------------- webhook
\* The JSON body of a callback.  s3_result_paths = <<>> is an absent or empty
\* list: the handler reads the field with `or []` and by truthiness only.
Bodies ==
    [job_id : Jobs \cup {None},
     s3_result_path : {"a", None},
     s3_result_key : {"b", None},
     s3_result_paths : Lists]

\* Lines 184-198: the writes of one callback.  fails is the number of UPDATE
\* statements that raise before one executes, in the order the handler and
\* the client try them; when all four raise the handler logs and goes on.
Persist(table, job_id, s3_key, list, fails) ==
    LET s3_paths_json == IF list # <<>> THEN JsonDumps(list) ELSE NullText
        first == UpdateUploadStatusWithPaths(table, job_id, "COMPLETED", s3_key,
                                             s3_paths_json, fails < 1, fails < 2)
        second == UpdateUploadStatus(table, job_id, "COMPLETED", s3_key,
                                     fails < 3, fails < 4)
    IN  IF ~first.raised THEN first.table ELSE second.table

\* Lines 202-205: the keys to sign.
AllKeys(s3_key, list) ==
    IF Truthy(s3_key) /\ ~InList(s3_key, list) THEN <<s3_key>> \o list ELSE list

\* Lines 207-213 and 287-292: sign each key, skipping the keys that fail.
PresignEach(keys, signable) ==
    LET F[i \in 0..Len(keys)] ==
            IF i = 0 THEN <<>>
            ELSE IF keys[i] \in signable
            THEN Append(F[i - 1], PresignedUrl(keys[i]))
            ELSE F[i - 1]
    IN  F[Len(keys)]

\* Lines 235-243: the body of the 202 response.
Accepted(urls, pushed) ==
    [code |-> 202, result_urls |-> urls,
     message |-> IF pushed THEN "Result pushed successfully."
                 ELSE "Result URL(s) generated."]

Failed(code) == [code |-> code, result_urls |-> <<>>, message |-> None]

NoResponse == Failed(0)

\* The callback task when no callback is in flight.  verified, fails,
\* signed_all and push keep what the collaborators answered: whether the
\* signature verified, how many UPDATE statements raised, whether every key
\* was signed, and how manager.send_result_to_client ended ("delivered",
\* "absent": no registration, "dead": the send failed and it returned False,
\* "raised": it raised).  skipped holds the keys of all_keys S3 refused to
\* sign in the loop, retry what it answered to the attempt of line 218
\* ("none": not asked, "ok", "failed").
IdleHook == [pc |-> "idle", verified |-> FALSE, job_id |-> None, s3_key |-> None,
             list |-> <<>>, all_keys |-> <<>>, urls |-> <<>>, pushed |-> FALSE,
             fails |-> 0, signed_all |-> FALSE, push |-> None,
             skipped |-> {}, retry |-> "none", resp |-> NoResponse]

\* The task once the handler has returned (or raised) resp.
Returned(task, resp) == [task EXCEPT !.pc = "returned", !.resp = resp]

\* ----------------------------------------------------------- status query
\* Lines 266-299: the response for a row.  result_urls = <<>> is null: the
\* handler never returns an empty list.  signed_all, skipped and read keep
\* what the collaborators answered: whether every key was signed, the keys
\* S3 refused, and which SELECT of get_upload_record gave the row ("full" or
\* "basic").
StatusResponse_AnyStatus(job_id, rec, signable, read) ==
    LET status == rec.status
        s3_key == rec.s3_result_path
        s3_paths == rec.s3_result_paths
        keys == IF s3_paths # NullText THEN JsonLoads(s3_paths)
                ELSE IF Truthy(s3_key) THEN <<s3_key>>
                ELSE <<>>
        result_urls == PresignEach(keys, signable)
    IN  [pc |-> "returned", code |-> 200, job_id |-> job_id, status |-> status,
         result_url |-> IF result_urls # <<>> THEN result_urls[1] ELSE NoUrl,
         result_urls |-> result_urls,
         signed_all |-> \A i \in 1..Len(keys) : keys[i] \in signable,
         skipped |-> {keys[i] : i \in 1..Len(keys)} \ signable,
         read |-> read]

StatusResponse(job_id, rec, signable, read) ==
    LET status == rec.status
        s3_key == rec.s3_result_path
        s3_paths == rec.s3_result_paths
        keys == IF status # "COMPLETED" THEN <<>>
                ELSE IF s3_paths # NullText THEN JsonLoads(s3_paths)
                ELSE IF Truthy(s3_key) THEN <<s3_key>>
                ELSE <<>>
        result_urls == PresignEach(keys, signable)
    IN  [pc |-> "returned", code |-> 200, job_id |-> job_id, status |-> status,
         result_url |-> IF result_urls # <<>> THEN result_urls[1] ELSE NoUrl,
         result_urls |-> result_urls,
         signed_all |-> \A i \in 1..Len(keys) : keys[i] \in signable,
         skipped |-> {keys[i] : i \in 1..Len(keys)} \ signable,
         read |-> read]

QueryError(job_id, code) ==
    [pc |-> "returned", code |-> code, job_id |-> job_id, status |-> None,
     result_url |-> NoUrl, result_urls |-> <<>>, signed_all |-> FALSE,
     skipped |-> {}, read |-> None]

NoQuery == [pc |-> "idle", code |-> 0, job_id |-> None, status |-> None,
            result_url |-> NoUrl, result_urls |-> <<>>, signed_all |-> FALSE,
            skipped |-> {}, read |-> None]

\* Close codes of the handshake.
CLOSE_UNSUPPORTED == 1003
CLOSE_POLICY == 1008

\* ------------------------------------------------------------------ state
VARIABLES
    db,        \* the uploads table: job_id -> row
    registry,  \* manager.active_connections: the set of Registrations
    hs,        \* per connection: the state of its websocket_preconnect task
    alive,     \* per connection: the client side is still there
    sent,      \* per connection: the payloads the client has received
    wh,        \* the handle_webhook task: its locals, then its response
    accepted,  \* the jobs some callback has answered with 202
    nCb,       \* callbacks received so far
    q          \* the get_result_status request being answered

vars == <<db, registry, hs, alive, sent, wh, accepted, nCb, q>>

hookVars == <<wh, accepted, nCb, q>>

\* The task of a connection not yet opened.
\* frame keeps what the first frame was: "malformed" (no registration
\* request) or "register"; closed is the close code the server has sent.
NewTask == [pc |-> "new", frame |-> None, temp_id |-> None, user |-> NoId,
            pend |-> None, code |-> 0, closed |-> 0, outcome |-> None]

Init ==
    /\ db = [j \in Jobs |->
               IF j = "J1" THEN Row(<<"int", 1>>)
               ELSE IF j = "J2" THEN RowWithPath(<<"str", 2>>, "a")
               ELSE NoRow]
    /\ registry = {}
    /\ hs = [c \in Conns |-> NewTask]
    /\ alive = [c \in Conns |-> TRUE]
    /\ sent = [c \in Conns |-> <<>>]
    /\ wh = IdleHook
    /\ accepted = {}
    /\ nCb = 0
    /\ q = NoQuery

\* -------------------------------------------------------------- handshake
\* Lines 89-149, from the first frame to the next await: what the task is
\* about to do, with temp_id as the except clauses will find it.
\*   reject: send the payload `pend`, then close with `code`
\*   raise : an exception left the try body
\*   admit : call manager.connect
Decision(step, temp_id, user, pend, code) ==
    [step |-> step, temp_id |-> temp_id, user |-> user, pend |-> pend, code |-> code]

\* Line 101: the frame is a registration request.
IsRegistration(msg) ==
    IsDict(msg) /\ msg.action = "register" /\ Truthy(msg.job_id)

\* FirstMessage without the comparison of line 129: whoever names a job that
\* has an owner is admitted.
FirstMessage_NoAuth(token, msg, table, lookupOK) ==
    IF ~JsonDecodes(msg)
    THEN Decision("reject", None, NoId, "invalid_json", CLOSE_UNSUPPORTED)
    ELSE IF ~IsDict(msg)
    THEN Decision("raise", None, NoId, None, 0)
    ELSE IF IsRegistration(msg)
    THEN LET job_id == msg.job_id
             user_id == ResolveUser(token)
             owner_id == GetJobOwner(table, job_id)
         IN  IF ~lookupOK
             THEN Decision("raise", job_id, user_id, None, 0)
             ELSE IF owner_id = NoId
             THEN Decision("reject", job_id, user_id, "job_not_found", CLOSE_POLICY)
             ELSE Decision("admit", job_id, user_id, None, 0)
    ELSE Decision("reject", None, NoId, "expected register with job_id",
                  CLOSE_UNSUPPORTED)

\* FirstMessage with a rejection that names the owner it compared with.
FirstMessage_OwnerLeak(token, msg, table, lookupOK) ==
    IF ~JsonDecodes(msg)
    THEN Decision("reject", None, NoId, "invalid_json", CLOSE_UNSUPPORTED)
    ELSE IF ~IsDict(msg)
    THEN Decision("raise", None, NoId, None, 0)
    ELSE IF IsRegistration(msg)
    THEN LET job_id == msg.job_id
             user_id == ResolveUser(token)
             owner_id == GetJobOwner(table, job_id)
         IN  IF ~lookupOK
             THEN Decision("raise", job_id, user_id, None, 0)
             ELSE IF owner_id = NoId
             THEN Decision("reject", job_id, user_id, "job_not_found", CLOSE_POLICY)
             ELSE IF user_id = NoId \/ Str(user_id) # Str(owner_id)
             THEN Decision("reject", job_id, user_id,
                           IF Str(owner_id) = 1 THEN "forbidden: owner is 1"
                           ELSE "forbidden: owner is 2", CLOSE_POLICY)
             ELSE Decision("admit", job_id, user_id, None, 0)
    ELSE Decision("reject", None, NoId, "expected register with job_id",
                  CLOSE_UNSUPPORTED)

\* FirstMessage with the tests of lines 120 and 129 in the other order: the
\* credential is compared before the owner is found missing.
FirstMessage_AuthFirst(token, msg, table, lookupOK) ==
    IF ~JsonDecodes(msg)
    THEN Decision("reject", None, NoId, "invalid_json", CLOSE_UNSUPPORTED)
    ELSE IF ~IsDict(msg)
    THEN Decision("raise", None, NoId, None, 0)
    ELSE IF IsRegistration(msg)
    THEN LET job_id == msg.job_id
             user_id == ResolveUser(token)
             owner_id == GetJobOwner(table, job_id)
         IN  IF ~lookupOK
             THEN Decision("raise", job_id, user_id, None, 0)
             ELSE IF user_id = NoId \/ Str(user_id) # Str(owner_id)
             THEN Decision("reject", job_id, user_id, "forbidden", CLOSE_POLICY)
             ELSE IF owner_id = NoId
             THEN Decision("reject", job_id, user_id, "job_not_found", CLOSE_POLICY)
             ELSE Decision("admit", job_id, user_id, None, 0)
    ELSE Decision("reject", None, NoId, "expected register with job_id",
                  CLOSE_UNSUPPORTED)

FirstMessage(token, msg, table, lookupOK) ==
    IF ~JsonDecodes(msg)
    THEN Decision("reject", None, NoId, "invalid_json", CLOSE_UNSUPPORTED)
    ELSE IF ~IsDict(msg)
    THEN Decision("raise", None, NoId, None, 0)
    ELSE IF IsRegistration(msg)
    THEN LET job_id == msg.job_id
             user_id == ResolveUser(token)
             owner_id == GetJobOwner(table, job_id)
         IN  IF ~lookupOK
             THEN Decision("raise", job_id, user_id, None, 0)
             ELSE IF owner_id = NoId
             THEN Decision("reject", job_id, user_id, "job_not_found", CLOSE_POLICY)
             ELSE IF user_id = NoId \/ Str(user_id) # Str(owner_id)
             THEN Decision("reject", job_id, user_id, "forbidden", CLOSE_POLICY)
             ELSE Decision("admit", job_id, user_id, None, 0)
    ELSE Decision("reject", None, NoId, "expected register with job_id",
                  CLOSE_UNSUPPORTED)

\* Cleanup with the except clauses leaving the registry alone.
Cleanup_Skipped(reg, temp_id) == reg

\* Lines 150-158: either except clause runs manager.disconnect(temp_id) when
\* temp_id is set.
Cleanup(reg, temp_id) ==
    IF temp_id # None THEN RegistryDisconnect(reg, temp_id) ELSE reg

\* Line 40: accept the upgrade.
HsAccept(c) ==
    /\ hs[c].pc = "new"
    /\ hs' = [hs EXCEPT ![c].pc = "recv"]
    /\ UNCHANGED <<db, registry, alive, sent, hookVars>>

\* The client goes away (closes, or the transport drops) while its task runs.
ClientGone(c) ==
    /\ hs[c].pc \in {"recv", "reject", "connected", "drain"}
    /\ alive[c]
    /\ alive' = [alive EXCEPT ![c] = FALSE]
    /\ UNCHANGED <<db, registry, hs, sent, hookVars>>

\* The task once websocket_preconnect has returned: its locals are gone.
Ended(frame, closed, outcome) ==
    [pc |-> "done", frame |-> frame, temp_id |-> None, user |-> NoId,
     pend |-> None, code |-> 0, closed |-> closed, outcome |-> outcome]

\* The task after its first frame msg is judged as d.
Judged(c, msg, d) ==
    LET frame == IF IsRegistration(msg) THEN "register" ELSE "malformed" IN
    /\ hs' = [hs EXCEPT ![c] =
                IF d.step = "raise" THEN Ended(frame, 0, "error")
                ELSE [@ EXCEPT !.pc = d.step, !.frame = frame,
                               !.temp_id = d.temp_id, !.user = d.user,
                               !.pend = d.pend, !.code = d.code]]
    /\ registry' = IF d.step = "raise" THEN Cleanup(registry, d.temp_id)
                   ELSE registry

\* Lines 50-133: the first frame arrives and is judged.  The credential is
\* read from the upgrade request, which is fixed once the socket is open, so
\* it is drawn here, where it is first used; a frame that is no registration
\* request is judged before the credential is looked at.
HsReceive(c) ==
    /\ hs[c].pc = "recv"
    /\ alive[c]
    /\ \E msg \in Messages :
         IF IsRegistration(msg)
         THEN \E cred \in Credentials, lookupOK \in BOOLEAN :
                Judged(c, msg, FirstMessage(ExtractToken(cred[1], cred[2], cred[3]),
                                            msg, db, lookupOK))
         ELSE Judged(c, msg, FirstMessage("", msg, db, TRUE))
    /\ UNCHANGED <<db, alive, sent, hookVars>>

\* Lines 95-97, 123-125, 131-133, 148-149: send the error payload and close.
\* A send to a client that has gone raises, and the except clause cleans up.
HsReject(c) ==
    /\ hs[c].pc = "reject"
    /\ IF alive[c]
       THEN /\ sent' = [sent EXCEPT ![c] = Append(@, ErrorPayload(hs[c].pend))]
            /\ hs' = [hs EXCEPT ![c] = Ended(hs[c].frame, hs[c].code, "rejected")]
            /\ UNCHANGED registry
       ELSE /\ hs' = [hs EXCEPT ![c] = Ended(hs[c].frame, 0, "error")]
            /\ registry' = Cleanup(registry, hs[c].temp_id)
            /\ UNCHANGED sent
    /\ UNCHANGED <<db, alive, hookVars>>

\* HsConnect with the call of line 137 left out: the acknowledgment follows
\* without a registration.
HsConnect_Skipped(c) ==
    /\ hs[c].pc = "admit"
    /\ hs' = [hs EXCEPT ![c].pc = "connected"]
    /\ UNCHANGED <<db, registry, alive, sent, hookVars>>

\* Line 137: manager.connect(job_id, websocket, user_id).
HsConnect(c) ==
    /\ hs[c].pc = "admit"
    /\ registry' = RegistryConnect(registry, hs[c].temp_id, c, hs[c].user)
    /\ hs' = [hs EXCEPT ![c].pc = "connected"]
    /\ UNCHANGED <<db, alive, sent, hookVars>>

\* Line 139: the acknowledgment; then the drain loop of lines 143-144.
HsAck(c) ==
    /\ hs[c].pc = "connected"
    /\ IF alive[c]
       THEN /\ sent' = [sent EXCEPT ![c] =
                          Append(@, Payload("registered", hs[c].temp_id, <<>>))]
            /\ hs' = [hs EXCEPT ![c].pc = "drain"]
            /\ UNCHANGED registry
       ELSE /\ hs' = [hs EXCEPT ![c] = Ended(hs[c].frame, 0, "error")]
            /\ registry' = Cleanup(registry, hs[c].temp_id)
            /\ UNCHANGED sent
    /\ UNCHANGED <<db, alive, hookVars>>

\* Lines 89/144 and 150-153: receive_text raises WebSocketDisconnect once the
\* client has gone, in the first read or in the drain loop.
HsDisconnect(c) ==
    /\ hs[c].pc \in {"recv", "drain"}
    /\ ~alive[c]
    /\ hs' = [hs EXCEPT ![c] = Ended(hs[c].frame, 0, "disconnected")]
    /\ registry' = Cleanup(registry, hs[c].temp_id)
    /\ UNCHANGED <<db, alive, sent, hookVars>>

\* ---------------------------------------------------------------- webhook
\* WhHandle with the result of line 172 ignored: a callback whose signature
\* does not verify is processed like any other.
WhHandle_Unverified(bodies, maxFails, signables) ==
    /\ wh.pc = "idle"
    /\ nCb < MaxCallbacks
    /\ nCb' = nCb + 1
    /\ \E verified \in BOOLEAN, body \in bodies, fails \in 0..maxFails :
         LET job_id == body.job_id
             s3_key == Or(body.s3_result_path, body.s3_result_key)
             all_keys == AllKeys(s3_key, body.s3_result_paths)
         IN  /\ Truthy(job_id) /\ Truthy(s3_key)
             /\ db' = Persist(db, job_id, s3_key, body.s3_result_paths, fails)
             /\ wh' = [IdleHook EXCEPT !.pc = "push", !.verified = verified,
                                       !.job_id = job_id, !.s3_key = s3_key,
                                       !.list = body.s3_result_paths,
                                       !.all_keys = all_keys,
                                       !.urls = PresignEach(all_keys, Keys),
                                       !.fails = fails, !.signed_all = TRUE]
    /\ UNCHANGED <<registry, hs, alive, sent, accepted, q>>

\* WhHandle without the attempt of lines 215-221: an empty list of URLs is a
\* server error at once.
WhHandle_NoRetry(bodies, maxFails, signables) ==
    /\ wh.pc = "idle"
    /\ nCb < MaxCallbacks
    /\ nCb' = nCb + 1
    /\ \E verified \in BOOLEAN :
         IF ~verified
         THEN /\ wh' = Returned(IdleHook, Failed(401))
              /\ UNCHANGED db
         ELSE \E body \in bodies :
           LET job_id == body.job_id
               s3_key == Or(body.s3_result_path, body.s3_result_key)
               list == body.s3_result_paths
               got == [IdleHook EXCEPT !.verified = TRUE, !.job_id = job_id,
                                       !.s3_key = s3_key, !.list = list]
           IN  IF ~Truthy(job_id) \/ ~Truthy(s3_key)
               THEN /\ wh' = Returned(got, Failed(400))
                    /\ UNCHANGED db
               ELSE \E fails \in 0..maxFails, signable \in signables :
                 LET all_keys == AllKeys(s3_key, list)
                     urls == PresignEach(all_keys, signable)
                     task == [got EXCEPT !.all_keys = all_keys, !.urls = urls,
                                         !.fails = fails,
                                         !.signed_all = Len(urls) = Len(all_keys),
                                         !.skipped = {all_keys[i] : i \in 1..Len(all_keys)}
                                                       \ signable]
                 IN  /\ db' = Persist(db, job_id, s3_key, list, fails)
                     /\ wh' = IF urls = <<>> THEN Returned(task, Failed(500))
                              ELSE [task EXCEPT !.pc = "push"]
    /\ UNCHANGED <<registry, hs, alive, sent, accepted, q>>

\* Lines 172-221: verification, parsing, persistence and URL generation run
\* to the push without touching anything another task shares in between.
\* bodies, maxFails and signables bound the callbacks, the database faults
\* and the signing faults drawn.
WhHandle(bodies, maxFails, signables) ==
    /\ wh.pc = "idle"
    /\ nCb < MaxCallbacks
    /\ nCb' = nCb + 1
    /\ \E verified \in BOOLEAN :
         IF ~verified
         THEN /\ wh' = Returned(IdleHook, Failed(401))
              /\ UNCHANGED db
         ELSE \E body \in bodies :
           LET job_id == body.job_id
               s3_key == Or(body.s3_result_path, body.s3_result_key)
               list == body.s3_result_paths
               got == [IdleHook EXCEPT !.verified = TRUE, !.job_id = job_id,
                                       !.s3_key = s3_key, !.list = list]
           IN  IF ~Truthy(job_id) \/ ~Truthy(s3_key)
               THEN /\ wh' = Returned(got, Failed(400))
                    /\ UNCHANGED db
               ELSE \E fails \in 0..maxFails, signable \in signables,
                       retryOK \in BOOLEAN :
                 LET all_keys == AllKeys(s3_key, list)
                     looped == PresignEach(all_keys, signable)
                     urls == IF looped # <<>> THEN looped
                             ELSE IF retryOK THEN <<PresignedUrl(s3_key)>>
                             ELSE <<>>
                     task == [got EXCEPT !.all_keys = all_keys, !.urls = urls,
                                         !.fails = fails,
                                         !.signed_all = Len(looped) = Len(all_keys),
                                         !.skipped = {all_keys[i] : i \in 1..Len(all_keys)}
                                                       \ signable,
                                         !.retry = IF looped # <<>> THEN "none"
                                                   ELSE IF retryOK THEN "ok"
                                                   ELSE "failed"]
                 IN  /\ db' = Persist(db, job_id, s3_key, list, fails)
                     /\ wh' = IF urls = <<>> THEN Returned(task, Failed(500))
                              ELSE [task EXCEPT !.pc = "push"]
    /\ UNCHANGED <<registry, hs, alive, sent, accepted, q>>

\* WhPush with the payload given to any connection that holds a
\* registration, whatever its job.
WhPush_AnyConnection ==
    /\ wh.pc = "push"
    /\ IF registry = {}
       THEN /\ wh' = [wh EXCEPT !.pc = "respond", !.pushed = FALSE,
                                !.push = "absent"]
            /\ UNCHANGED sent
       ELSE \E r \in registry :
              IF alive[r.conn]
              THEN /\ sent' = [sent EXCEPT ![r.conn] =
                                 Append(@, Payload("COMPLETED", wh.job_id, wh.urls))]
                   /\ wh' = [wh EXCEPT !.pc = "respond", !.pushed = TRUE,
                                       !.push = "delivered"]
              ELSE /\ \E how \in {"dead", "raised"} :
                        wh' = [wh EXCEPT !.pc = "respond", !.pushed = FALSE,
                                         !.push = how]
                   /\ UNCHANGED sent
    /\ UNCHANGED <<db, registry, hs, alive, accepted, nCb, q>>

\* Lines 224-233: manager.send_result_to_client(job_id, presigned_urls).  The
\* payload goes to the connection registered for job_id; with no
\* registration, or a connection whose client has gone, nothing is delivered.
\* The send to a client that has gone fails inside the registry, which
\* returns False or lets the exception out; line 231 catches it and sets
\* pushed = False.
WhPush ==
    /\ wh.pc = "push"
    /\ LET regs == RegsFor(registry, wh.job_id) IN
       IF regs = {}
       THEN /\ wh' = [wh EXCEPT !.pc = "respond", !.pushed = FALSE,
                                !.push = "absent"]
            /\ UNCHANGED sent
       ELSE \E r \in regs :
              IF alive[r.conn]
              THEN /\ sent' = [sent EXCEPT ![r.conn] =
                                 Append(@, Payload("COMPLETED", wh.job_id, wh.urls))]
                   /\ wh' = [wh EXCEPT !.pc = "respond", !.pushed = TRUE,
                                       !.push = "delivered"]
              ELSE /\ \E how \in {"dead", "raised"} :
                        wh' = [wh EXCEPT !.pc = "respond", !.pushed = FALSE,
                                         !.push = how]
                   /\ UNCHANGED sent
    /\ UNCHANGED <<db, registry, hs, alive, accepted, nCb, q>>

\* WhRespond with the response made to depend on the push: a push that did
\* not deliver fails the request.
WhRespond_PushDecides ==
    /\ wh.pc = "respond"
    /\ wh' = Returned(wh, IF wh.pushed THEN Accepted(wh.urls, TRUE) ELSE Failed(500))
    /\ accepted' = IF wh.pushed THEN accepted \cup {wh.job_id} ELSE accepted
    /\ UNCHANGED <<db, registry, hs, alive, sent, nCb, q>>

\* Lines 235-243: the 202 response.
WhRespond ==
    /\ wh.pc = "respond"
    /\ wh' = Returned(wh, Accepted(wh.urls, wh.pushed))
    /\ accepted' = accepted \cup {wh.job_id}
    /\ UNCHANGED <<db, registry, hs, alive, sent, nCb, q>>

\* The response has gone out; the task is over.
WhDone ==
    /\ wh.pc = "returned"
    /\ wh' = IdleHook
    /\ UNCHANGED <<db, registry, hs, alive, sent, accepted, nCb, q>>

\* ----------------------------------------------------------- status query
\* get_result_status made to look at the registry: a job nobody is
\* registered for is reported as not found.
GetResultStatus_NeedsRegistration(table, reg, job_id, ok1, ok2, signable) ==
    IF ~Truthy(job_id) THEN QueryError(job_id, 400)
    ELSE LET got == GetUploadRecord(table, job_id, ok1, ok2) IN
         IF got.raised THEN QueryError(job_id, 500)
         ELSE IF ~got.rec.exists \/ RegsFor(reg, job_id) = {}
         THEN QueryError(job_id, 404)
         ELSE StatusResponse(job_id, got.rec, signable,
                             IF ok1 THEN "full" ELSE "basic")

\* Lines 252-299: the response of get_result_status(job_id), with the module
\* globals it can reach (the table behind db_client, the registry behind
\* manager) and what its collaborators answer: ok1 and ok2 for the two
\* SELECT statements, signable for the keys S3 signs.
GetResultStatus(table, reg, job_id, ok1, ok2, signable) ==
    IF ~Truthy(job_id) THEN QueryError(job_id, 400)
    ELSE LET got == GetUploadRecord(table, job_id, ok1, ok2) IN
         IF got.raised THEN QueryError(job_id, 500)
         ELSE IF ~got.rec.exists THEN QueryError(job_id, 404)
         ELSE StatusResponse(job_id, got.rec, signable,
                             IF ok1 THEN "full" ELSE "basic")

\* Lines 252-299: get_result_status has no await and runs in one step.
StatusQuery ==
    /\ q.pc = "idle"
    /\ \E job_id \in Jobs \cup {""}, ok1 \in BOOLEAN, ok2 \in BOOLEAN,
          signable \in SUBSET Keys :
         q' = GetResultStatus(db, registry, job_id, ok1, ok2, signable)
    /\ UNCHANGED <<db, registry, hs, alive, sent, wh, accepted, nCb>>

\* The response has gone out.
QueryReturn ==
    /\ q.pc = "returned"
    /\ q' = NoQuery
    /\ UNCHANGED <<db, registry, hs, alive, sent, wh, accepted, nCb>>

\* The callbacks the registry protocol is checked with: one key, no list.
PlainBodies == {b \in Bodies : b.s3_result_paths = <<>> /\ b.s3_result_key = None
                                /\ b.s3_result_path = "a" /\ b.job_id = "J1"}

Handshake ==
    \/ \E c \in Conns : HsAccept(c)
    \/ \E c \in Conns : ClientGone(c)
    \/ \E c \in Conns : HsReceive(c)
    \/ \E c \in Conns : HsReject(c)
    \/ \E c \in Conns : HsConnect(c)
    \/ \E c \in Conns : HsAck(c)
    \/ \E c \in Conns : HsDisconnect(c)

\* The registry protocol: every connection's handshake, with callbacks.
Next ==
    \/ Handshake
    \/ WhHandle(PlainBodies, 0, {Keys})
    \/ WhPush
    \/ WhRespond
    \/ WhDone

Spec == Init /\ [][Next]_vars

\* The handshakes alone: every frame, credential and fault of every
\* connection.
SpecHandshake == Init /\ [][Handshake]_vars

\* Push beside persistence: handshakes that are admitted for J1, the clients
\* going away, and plain callbacks with every database fault.
NextPush ==
    \/ \E c \in Conns : HsAccept(c)
    \/ \E c \in Conns : HsReceive(c) /\ hs'[c].pc = "admit"
                                      /\ hs'[c].temp_id = "J1"
    \/ \E c \in Conns : HsConnect(c)
    \/ \E c \in Conns : HsAck(c)
    \/ \E c \in Conns : ClientGone(c)
    \/ \E c \in Conns : HsDisconnect(c)
    \/ WhHandle(PlainBodies, 4, {Keys})
    \/ WhPush
    \/ WhRespond
    \/ WhDone

SpecPush == Init /\ [][NextPush]_vars

\* The handshakes alone, with the scheduling of the event loop: a task whose
\* send or receive has failed is resumed.
SpecTeardown ==
    /\ Init
    /\ [][Handshake]_vars
    /\ \A c \in Conns : WF_vars(HsAck(c)) /\ WF_vars(HsDisconnect(c))

\* The callbacks the endpoints are checked with: for a job with a row and
\* for a job without one.
IngestBodies == {b \in Bodies : b.job_id # "J2"}

\* The HTTP endpoints: every callback body and fault, with status queries.
\* A request being answered is answered before anything else runs.
NextIngest ==
    \/ q.pc = "idle" /\ WhHandle(IngestBodies, 4, SUBSET Keys)
    \/ q.pc = "idle" /\ WhPush
    \/ q.pc = "idle" /\ WhRespond
    \/ q.pc = "idle" /\ WhDone
    \/ StatusQuery
    \/ QueryReturn

SpecIngest == Init /\ [][NextIngest]_vars

\* Authorization beside the push: handshakes whose first frame is a
\* registration request for a job that has a row, with every credential and
\* lookup fault, the clients going away, and plain callbacks for J1.
NextOwner ==
    \/ \E c \in Conns : HsAccept(c)
    \/ \E c \in Conns : ClientGone(c)
    \/ \E c \in Conns : /\ HsReceive(c)
                         /\ hs'[c].frame = "register"
                         /\ hs'[c].temp_id # "J3"
    \/ \E c \in Conns : HsReject(c)
    \/ \E c \in Conns : HsConnect(c)
    \/ \E c \in Conns : HsAck(c)
    \/ \E c \in Conns : HsDisconnect(c)
    \/ WhHandle(PlainBodies, 0, {Keys})
    \/ WhPush
    \/ WhRespond
    \/ WhDone

SpecOwner == Init /\ [][NextOwner]_vars

\* Polling beside the registry: handshakes that are admitted for J1, the
\* clients going away, plain callbacks, and status queries made while no
\* callback is being handled and no handshake is under way.
NextQuery ==
    \/ q.pc = "idle" /\ \E c \in Conns : HsAccept(c)
    \/ q.pc = "idle" /\ \E c \in Conns : HsReceive(c) /\ hs'[c].pc = "admit"
                                          /\ hs'[c].temp_id = "J1"
    \/ q.pc = "idle" /\ \E c \in Conns : HsConnect(c)
    \/ q.pc = "idle" /\ \E c \in Conns : HsAck(c)
    \/ q.pc = "idle" /\ \E c \in Conns : ClientGone(c)
    \/ q.pc = "idle" /\ \E c \in Conns : HsDisconnect(c)
    \/ q.pc = "idle" /\ WhHandle(PlainBodies, 0, {Keys})
    \/ q.pc = "idle" /\ WhPush
    \/ q.pc = "idle" /\ WhRespond
    \/ q.pc = "idle" /\ WhDone
    \/ wh.pc = "idle" /\ (\A c \in Conns : hs[c].pc \in {"new", "drain", "done"})
                       /\ StatusQuery
    \/ QueryReturn

SpecQuery == Init /\ [][NextQuery]_vars

\* ------------------------------------------------------------------ claims
\* The registrations a connection holds.
RegsOf(reg, c) == {r \in reg : r.conn = c}

\* The task of c is past manager.connect and has not ended.
Registered(c) == hs[c].pc \in {"connected", "drain"}

\* The task of c ends in this step.
Ends(c) == hs[c].pc # "done" /\ hs'[c].pc = "done"

AtMostOnePerJob == \A j \in Jobs : Cardinality(RegsFor(registry, j)) <= 1

C2_OneRegistrationPerJob ==
    /\ []AtMostOnePerJob
    /\ [][\A c \in Conns :
            (hs[c].pc = "admit" /\ hs'[c].pc = "connected")
            => RegsFor(registry', hs[c].temp_id)
                 = {Registration(hs[c].temp_id, c, hs[c].user)}]_vars

\* C2's case: c has just registered for a job another open connection had
\* registered for, and the registry holds c alone for it.
C2_Witness ==
    \E c \in Conns, d \in Conns :
        /\ c # d
        /\ hs[c].pc = "connected"
        /\ hs[d].pc = "drain"
        /\ hs[c].temp_id = hs[d].temp_id
        /\ RegsFor(registry, hs[c].temp_id) = {Registration(hs[c].temp_id, c, hs[c].user)}

\* The registration request of c names a job whose owner is not the identity
\* of c's credential, or c's credential gives no identity.
Mismatch(c) ==
    /\ hs[c].temp_id # None
    /\ GetJobOwner(db, hs[c].temp_id) # NoId
    /\ \/ hs[c].user = NoId
       \/ Str(hs[c].user) # Str(GetJobOwner(db, hs[c].temp_id))

\* C3: a registration request whose credential resolves to another identity
\* than the job's owner, or to none, is answered with the "forbidden" payload
\* and close code 1008 (as long as the client is there to be answered), and
\* the connection is never registered.
C3_MismatchIsForbidden ==
    /\ [](\A c \in Conns :
            Mismatch(c) => /\ hs[c].pc = "reject"
                           /\ hs[c].pend = "forbidden"
                           /\ hs[c].code = CLOSE_POLICY
                           /\ RegsOf(registry, c) = {})
    /\ [][\A c \in Conns :
            (Mismatch(c) /\ Ends(c))
            => /\ RegsOf(registry', c) = {}
               /\ alive[c] => /\ sent'[c] = Append(sent[c], ErrorPayload("forbidden"))
                              /\ hs'[c].closed = CLOSE_POLICY]_vars

\* C3's case: a client with a valid credential for another identity than the
\* owner has been sent "forbidden" and closed with 1008, while a client with
\* no identity waits for the same answer.
C3_Witness ==
    \E c \in Conns, d \in Conns :
        /\ hs[c].pc = "done"
        /\ hs[c].closed = CLOSE_POLICY
        /\ sent[c] = <<ErrorPayload("forbidden")>>
        /\ Mismatch(d)
        /\ hs[d].user = NoId

\* The registration request of c names a job without an owner record.
NoOwner(c) ==
    /\ hs[c].temp_id # None
    /\ GetJobOwner(db, hs[c].temp_id) = NoId

\* C4: a registration request for a job without an owner record is answered
\* with the "job_not_found" payload, which is not the "forbidden" one, and
\* close code 1008 (as long as the client is there to be answered), whatever
\* the credential, and the connection is never registered.
C4_UnknownJobIsNotFound ==
    /\ [](\A c \in Conns :
            NoOwner(c) => /\ hs[c].pc = "reject"
                          /\ hs[c].pend = "job_not_found"
                          /\ hs[c].pend # "forbidden"
                          /\ hs[c].code = CLOSE_POLICY
                          /\ RegsOf(registry, c) = {})
    /\ [][\A c \in Conns :
            (NoOwner(c) /\ Ends(c))
            => /\ RegsOf(registry', c) = {}
               /\ alive[c] => /\ sent'[c] = Append(sent[c], ErrorPayload("job_not_found"))
                              /\ hs'[c].closed = CLOSE_POLICY]_vars

\* C4's case: one client has been sent "job_not_found" and closed with 1008;
\* another, with a valid credential, waits for the same answer.
C4_Witness ==
    \E c \in Conns, d \in Conns :
        /\ hs[c].pc = "done"
        /\ hs[c].closed = CLOSE_POLICY
        /\ sent[c] = <<ErrorPayload("job_not_found")>>
        /\ NoOwner(d)
        /\ hs[d].user # NoId

\* C5: a first frame that is no registration request (not JSON, JSON of any
\* shape without the fields, another action, no job_id) is answered with one
\* error payload and close code 1003 (as long as the client is there to be
\* answered); the connection is never registered and no further frame is
\* read.
C5_MalformedIsRejected ==
    \A c \in Conns :
        hs[c].frame = "malformed"
        => /\ hs[c].pc \in {"reject", "done"}
           /\ RegsOf(registry, c) = {}
           /\ hs[c].pc = "reject" => hs[c].code = CLOSE_UNSUPPORTED
           /\ (hs[c].pc = "done" /\ alive[c])
                => /\ hs[c].closed = CLOSE_UNSUPPORTED
                   /\ Len(sent[c]) = 1

\* C6: a callback whose signature does not verify is answered with the
\* verifier's 401 and changes neither the table nor the registry nor what
\* any client has received.
C6_UnverifiedChangesNothing ==
    [][(wh.pc = "idle" /\ wh'.pc # "idle" /\ ~wh'.verified)
       => /\ wh' = Returned(IdleHook, Failed(401))
          /\ UNCHANGED <<db, registry, sent, accepted>>]_vars

\* C6's case: a callback has been answered 401 while a connection is
\* registered.
C6_Witness ==
    /\ wh.pc = "returned"
    /\ wh.resp.code = 401
    /\ registry # {}

\* C7: a callback none of whose writes was executed is not answered 202 and
\* is not pushed.
C7_FailedWriteFailsCallback ==
    (wh.verified /\ wh.fails = 4) => wh.pc \notin {"push", "respond", "returned"}
                                     \/ (wh.pc = "returned" /\ wh.resp.code # 202)

\* C8: once a callback for a job has been answered 202, a status query for
\* that job (the read of the table not failing, every key signed) answers
\* 200 with status COMPLETED and a URL list that is not empty.
C8_AcceptedThenQueryCompleted ==
    (/\ q.pc = "returned"
     /\ q.job_id \in accepted
     /\ q.code # 500
     /\ q.code = 200 => q.signed_all)
    => /\ q.code = 200
       /\ q.status = "COMPLETED"
       /\ q.result_urls # <<>>

\* C9: the URLs of a callback answered 202 (the list written, every key
\* signed) are, in the same order, the URLs a status query made next for the
\* job returns (the row read in full, every key signed).
C9_PushEqualsPoll ==
    (/\ wh.pc = "returned"
     /\ wh.resp.code = 202
     /\ wh.fails = 0
     /\ wh.signed_all
     /\ q.pc = "returned"
     /\ q.job_id = wh.job_id
     /\ q.code = 200
     /\ q.read = "full"
     /\ q.signed_all)
    => q.result_urls = wh.resp.result_urls

\* C10: the keys a callback signs start with the primary key, hold every key
\* of the list field, and hold no key twice.
C10_NormalizedKeys ==
    (wh.pc \in {"push", "respond", "returned"} /\ wh.all_keys # <<>>)
    => /\ wh.all_keys[1] = wh.s3_key
       /\ \A i \in 1..Len(wh.list) : InList(wh.list[i], wh.all_keys)
       /\ \A i, j \in 1..Len(wh.all_keys) :
              wh.all_keys[i] = wh.all_keys[j] => i = j

\* C11: the push decides nothing but the message: the URLs a callback has
\* generated go through the push unchanged, and whatever the push did
\* (delivered, no registration, dead connection, exception) the response is
\* 202 with those URLs; the message says "pushed" exactly when it delivered.
C11_PushDoesNotDecide ==
    /\ [][(wh.pc = "push" /\ wh'.pc # "push")
          => /\ wh'.pc = "respond"
             /\ wh'.urls = wh.urls
             /\ wh'.pushed = (wh'.push = "delivered")
             /\ UNCHANGED db]_vars
    /\ [][(wh.pc = "respond" /\ wh'.pc # "respond")
          => /\ wh'.pc = "returned"
             /\ wh'.resp.code = 202
             /\ wh'.resp.result_urls = wh.urls
             /\ wh'.resp.message = Accepted(wh.urls, wh.push = "delivered").message]_vars

\* C11's case: a callback has been answered 202 with its URLs after a push
\* that raised on a registered connection whose client had gone.
C11_Witness ==
    /\ wh.pc = "returned"
    /\ wh.push = "raised"
    /\ RegsFor(registry, wh.job_id) # {}
    /\ wh.resp = Accepted(<<PresignedUrl("a")>>, FALSE)

\* The registry contents another run may have for job j: nobody registered,
\* or one of the connections.
Registries(j) == {{}} \cup {{Registration(j, c, TokenSub("t1"))} : c \in Conns}

\* C12: a status query changes neither the table nor the registry (nor any
\* connection), and its response does not depend on the registry: whatever
\* the collaborators answered to produce it, the same answers produce the
\* same response from the same table under every other registry content.
C12_QueryIgnoresRegistry ==
    [][(q.pc = "idle" /\ q'.pc = "returned")
       => /\ UNCHANGED <<db, registry, hs, alive, sent, wh, accepted>>
          /\ \A ok1 \in BOOLEAN, ok2 \in BOOLEAN, signable \in SUBSET Keys :
               q' = GetResultStatus(db, registry, q'.job_id, ok1, ok2, signable)
               => \A reg \in Registries(q'.job_id) :
                     q' = GetResultStatus(db, reg, q'.job_id, ok1, ok2, signable)]_vars

\* C12's case: J1's URL is returned while a connection is registered for
\* J1, and another connection that had registered for it has ended.
C12_Witness ==
    /\ q.pc = "returned"
    /\ q.job_id = "J1"
    /\ q.result_urls = <<PresignedUrl("a")>>
    /\ \E c \in Conns, d \in Conns :
         /\ RegsFor(registry, "J1") = {Registration("J1", c, TokenSub("t1"))}
         /\ hs[d].pc = "done"
         /\ hs[d].frame = "register"

C14_PersistThenPushThenRespond ==
    /\ []((wh.pc = "push" /\ RegsFor(registry, wh.job_id) # {})
          => /\ db[wh.job_id].status = "COMPLETED"
             /\ db[wh.job_id].s3_result_path = wh.s3_key)
    /\ [][(wh.pc = "push" /\ wh'.pc = "respond")
          => \A r \in RegsFor(registry, wh.job_id) :
                alive[r.conn]
                => sent' = [sent EXCEPT ![r.conn] =
                              Append(@, Payload("COMPLETED", wh.job_id, wh.urls))]]_vars
    /\ [][(wh.pc = "respond" /\ wh'.pc = "returned") => sent' = sent]_vars

\* C15: a verified callback is answered 400, with no URL generated, exactly
\* when it has no job_id or has no location in the single-location fields
\* and none in the list field; with a job_id and a list alone it goes on.
C15_RejectsOnlyLocationless ==
    (wh.verified /\ wh.pc # "idle")
    => /\ (wh.pc = "returned" /\ wh.resp.code = 400)
            <=> (~Truthy(wh.job_id) \/ (~Truthy(wh.s3_key) /\ wh.list = <<>>))
       /\ (wh.pc = "returned" /\ wh.resp.code = 400) => wh.urls = <<>>

\* The URLs of the keys of a list that were not refused, in the list's order.
KeptUrls(keys, refused) ==
    LET kept == SelectSeq(keys, LAMBDA k : k \notin refused)
    IN  [i \in 1..Len(kept) |-> PresignedUrl(kept[i])]

\* C16: the URLs of a callback are those of the normalized keys that were
\* signed, in order; the primary key is tried once more exactly when none
\* was, and its URL is then the whole list; the callback is answered 500,
\* without a push, exactly when that attempt failed too, and otherwise goes
\* on to 202 with a list that is not empty.
C16_SkipRetryOr500 ==
    (wh.verified /\ wh.all_keys # <<>>)
    => LET looped == KeptUrls(wh.all_keys, wh.skipped) IN
       /\ wh.retry = "none" <=> looped # <<>>
       /\ wh.retry = "none" => wh.urls = looped
       /\ wh.retry = "ok" => wh.urls = <<PresignedUrl(wh.s3_key)>>
       /\ wh.retry = "failed" <=> (wh.pc = "returned" /\ wh.resp.code = 500)
       /\ wh.retry = "failed" => wh.push = None
       /\ wh.retry # "failed"
            => /\ wh.urls # <<>>
               /\ wh.pc = "returned" => wh.resp = Accepted(wh.urls, wh.pushed)

\* C16's case: of the keys <<b, a>> the first was refused and the callback
\* was answered 202 with the URL of a alone.
C16_Witness ==
    /\ wh.pc = "returned"
    /\ wh.all_keys = <<"b", "a">>
    /\ wh.skipped = {"b"}
    /\ wh.resp.code = 202
    /\ wh.resp.result_urls = <<PresignedUrl("a")>>

\* The registration request of c is about to be rejected, and its credential
\* is absent, invalid or the credential of an identity that owns no job.
RejectedOutsider(c) ==
    /\ hs[c].pc = "reject"
    /\ hs[c].frame = "register"
    /\ \/ hs[c].user = NoId
       \/ \A j \in Jobs : Str(hs[c].user) # Str(GetJobOwner(db, j))

\* C17 as stated: two clients that own no job get the same payload and the
\* same close code for their registration requests, whatever job_id each
\* names, whether the job exists or not.
C17_RejectionSameForEveryJob ==
    \A c \in Conns, d \in Conns :
        (RejectedOutsider(c) /\ RejectedOutsider(d))
        => /\ hs[c].pend = hs[d].pend
           /\ hs[c].code = hs[d].code

\* C17 as amended: two clients that own no job get the same payload and the
\* same close code for their registration requests, whatever job_id each
\* names among the jobs that have an owner record, whoever owns them.
C17_RejectionSameForEveryOwnedJob ==
    \A c \in Conns, d \in Conns :
        (/\ RejectedOutsider(c)
         /\ RejectedOutsider(d)
         /\ GetJobOwner(db, hs[c].temp_id) # NoId
         /\ GetJobOwner(db, hs[d].temp_id) # NoId)
        => /\ hs[c].pend = hs[d].pend
           /\ hs[c].code = hs[d].code

\* C17's case: a client without identity asks for J1 and a client with the
\* identity that owns no job asks for J2, and both are about to be rejected.
C17_Witness ==
    \E c \in Conns, d \in Conns :
        /\ RejectedOutsider(c)
        /\ RejectedOutsider(d)
        /\ hs[c].user = NoId
        /\ hs[d].user = TokenSub("t3")
        /\ hs[c].temp_id = "J1"
        /\ hs[d].temp_id = "J2"

\* The keys a status query signs for a row as get_upload_record returned it:
\* none unless the status is COMPLETED; the stored list when the row came
\* with one, else the stored primary key.
StoredKeys(row, read) ==
    IF row.status # "COMPLETED" THEN <<>>
    ELSE IF read = "full" /\ row.s3_result_paths # NullText
    THEN JsonLoads(row.s3_result_paths)
    ELSE IF Truthy(row.s3_result_path) THEN <<row.s3_result_path>>
    ELSE <<>>

\* C18: a status query answered 200 returns no URL unless the row's status
\* is COMPLETED; for COMPLETED its URLs are those of the stored list, or
\* else of the stored primary key, without the keys S3 refused; result_url
\* is null exactly when result_urls is, and is its first element otherwise.
C18_QueryUrls ==
    q.pc = "returned"
    => /\ q.code = 200
          => /\ q.status = db[q.job_id].status
             /\ q.status # "COMPLETED"
                => (q.result_urls = <<>> /\ q.result_url = NoUrl)
             /\ q.result_urls
                  = KeptUrls(StoredKeys(db[q.job_id], q.read), q.skipped)
       /\ q.result_url = NoUrl <=> q.result_urls = <<>>
       /\ q.result_urls # <<>> => q.result_url = q.result_urls[1]

\* C18's case: the row of J1 holds a list of two keys and a primary key, and
\* the query returns the URL of the list's second key, the first refused;
\* the PENDING row of J2 holds a key.
C18_Witness ==
    /\ q.pc = "returned"
    /\ q.job_id = "J1"
    /\ Len(JsonLoads(db["J1"].s3_result_paths)) = 2
    /\ Truthy(db["J1"].s3_result_path)
    /\ q.skipped # {}
    /\ Len(q.result_urls) = 1
    /\ q.result_url = PresignedUrl(JsonLoads(db["J1"].s3_result_paths)[2])
    /\ db["J2"].status = "PENDING"
    /\ Truthy(db["J2"].s3_result_path)

\* C19: when update_upload_status(job_id, "COMPLETED", s3_key) was called
\* with a key and returned without raising (the two statements of
\* update_upload_status_with_paths raised first, then the first or the
\* second statement of update_upload_status executed), the row of the job
\* holds the status COMPLETED and the key.
C19_StatusNeverWithoutPath ==
    (/\ wh.pc # "idle"
     /\ wh.verified
     /\ Truthy(wh.job_id)
     /\ Truthy(wh.s3_key)
     /\ wh.fails \in {2, 3}
     /\ db[wh.job_id].exists)
    => /\ db[wh.job_id].status = "COMPLETED"
       /\ db[wh.job_id].s3_result_path = wh.s3_key

OwnerOf(user, job_id) ==
    /\ user # NoId
    /\ db[job_id].exists
    /\ Str(user) = Str(db[job_id].user_id)

\* The connection gets a COMPLETED payload for the job in this step.
Pushed(c, job_id) ==
    /\ Len(sent'[c]) = Len(sent[c]) + 1
    /\ sent'[c][Len(sent'[c])].tag = "COMPLETED"
    /\ sent'[c][Len(sent'[c])].job = job_id

\* C21: every registration binds its job to a connection whose task resolved
\* its credential to the job's persisted owner, and a COMPLETED payload for
\* a job goes only to a connection registered for it, whose task holds that
\* identity.
C21_OnlyTheOwnerIsRegistered ==
    /\ [](\A r \in registry :
            /\ OwnerOf(r.owner, r.job)
            /\ Registered(r.conn) => (hs[r.conn].user = r.owner
                                      /\ hs[r.conn].temp_id = r.job))
    /\ [][\A c \in Conns, j \in Jobs :
            Pushed(c, j)
            => /\ Registration(j, c, hs[c].user) \in registry
               /\ OwnerOf(hs[c].user, j)]_vars

\* C21's case: a connection whose credential is not the owner's was refused
\* for J1, and the connection of the owner of J1 is registered for it and
\* has been sent the COMPLETED payload of a callback.
C21_Witness ==
    \E c \in Conns, o \in Conns :
       /\ Registration("J1", c, hs[c].user) \in registry
       /\ \E i \in 1..Len(sent[c]) : /\ sent[c][i].tag = "COMPLETED"
                                     /\ sent[c][i].job = "J1"
       /\ hs[o].outcome = "rejected"
       /\ \E i \in 1..Len(sent[o]) : sent[o][i].tag = "forbidden"

\* C22: on every connection a COMPLETED payload comes after the
\* "registered" acknowledgment: the acknowledgment is the first message a
\* client gets once its handshake has been admitted.
C22_AckBeforePush ==
    \A c \in Conns :
       \A i \in 1..Len(sent[c]) :
          sent[c][i].tag = "COMPLETED"
          => \E k \in 1..(i - 1) : sent[c][k].tag = "registered"

====
